---- MODULE Spec2Model ----
(***************************************************************************)
(* A model of legal2akn's structural parsers:                              *)
(*   - DocumentParser (src/legal2akn/parser.py): preamble split and the    *)
(*     chapter / article / section / subsection extraction chain;          *)
(*   - PDFParser (src/legal2akn/pdf_parser.py): the line scan for parts,   *)
(*     articles and schedules and the two repair passes.                   *)
(*                                                                         *)
(* Text is a sequence of lexemes (strings).  A keyword such as "CHAPTER"   *)
(* or "PART" is one lexeme, digits, Roman letters, single lower-case       *)
(* letters and punctuation are one lexeme per character, and a word such   *)
(* as "body" is one lexeme.  Every regular expression of the source is     *)
(* translated to a matcher over lexemes that follows Python's greedy,      *)
(* left-to-right semantics.  Positions are Python's: 0-based, and          *)
(* Slice(t, a, b) is t[a:b].                                               *)
(***************************************************************************)
EXTENDS Integers, Sequences, FiniteSets, TLC

VARIABLES
  pc,          \* "init" | "parsed" | "pdf" | "extracted" | "fixed" | "vii"
  text,        \* the argument of DocumentParser.parse
  document,    \* the LegalDocument returned by parse
  md_text,     \* the markdown text given to PDFParser
  found_parts, \* the caller's found-parts list (the repairs mutate it in place)
  structure,   \* the dict returned by extract_constitution_structure
  returned,    \* the list returned by a repair pass called on found_parts
  raised,      \* TRUE when the operation ended in an uncaught exception
  calls        \* the parse calls made on the DocumentParser: text and tree

vars ==
  <<pc, text, document, md_text, found_parts, structure, returned, raised,
    calls>>

(***************************************************************************)
(* Lexeme classes.                                                         *)
(***************************************************************************)
None == "<None>"

Space == {" ", "\n"}
Digit == {"0", "1", "2", "3", "4", "5", "6", "7", "8", "9"}
Upper == {"A", "B", "C", "D", "E", "F", "G", "H", "I", "J", "K", "L", "M",
          "N", "O", "P", "Q", "R", "S", "T", "U", "V", "W", "X", "Y", "Z"}
Lower == {"a", "b", "c", "d", "e", "f", "g", "h", "i", "j", "k", "l", "m",
          "n", "o", "p", "q", "r", "s", "t", "u", "v", "w", "x", "y", "z"}
\* [IVXLCDM] under re.IGNORECASE
RomanIC == {"I", "V", "X", "L", "C", "D", "M", "i", "v", "x", "l", "c", "d", "m"}
\* [IVXLCDM] without re.IGNORECASE
RomanCS == {"I", "V", "X", "L", "C", "D", "M"}

ChapterKw == {"CHAPTER", "Chapter", "chapter"}
ArticleKw == {"Article", "ARTICLE", "article"}
ArtKw == {"Art", "ART", "art"}
SectionKw == {"Section", "SECTION", "section", "&sect;"}
SecKw == {"Sec", "SEC", "sec"}

(***************************************************************************)
(* Sequence helpers with Python's conventions.                             *)
(***************************************************************************)
At(t, p) == t[p + 1]

Slice(t, a, b) == IF b <= a THEN <<>> ELSE SubSeq(t, a + 1, b)

Min(S) == CHOOSE x \in S : \A y \in S : x <= y

Range(seq) == {seq[i] : i \in 1..Len(seq)}

\* the first position q >= p whose lexeme is not in class S (Len(t) if none)
RECURSIVE SkipWhile(_, _, _)
SkipWhile(S, t, p) ==
  IF p >= Len(t) \/ At(t, p) \notin S THEN p ELSE SkipWhile(S, t, p + 1)

\* the end of the line that holds position p: where "$" matches after ".*"
RECURSIVE LineEnd(_, _)
LineEnd(t, p) ==
  IF p >= Len(t) \/ At(t, p) = "\n" THEN p ELSE LineEnd(t, p + 1)

\* "^" under re.MULTILINE
LineStart(t, p) == p = 0 \/ At(t, p - 1) = "\n"

\* str.strip()
Strip(t) ==
  LET keep == {k \in 1..Len(t) : t[k] \notin Space}
  IN  IF keep = {} THEN <<>>
      ELSE SubSeq(t, Min(keep), CHOOSE k \in keep : \A j \in keep : j <= k)

\* the Python string a lexeme sequence stands for
RECURSIVE Str(_)
Str(t) == IF t = <<>> THEN "" ELSE Head(t) \o Str(Tail(t))

\* str.replace('.', '_')
ReplaceDots(t) == [k \in 1..Len(t) |-> IF t[k] = "." THEN "_" ELSE t[k]]

(***************************************************************************)
(* DocumentParser.__init__: the four compiled patterns.  Each pattern is   *)
(* an operator Pat(t, p): the match object of the pattern anchored at      *)
(* position p of t, or NoMatch.  g1 and g2 are the lexemes of groups 1, 2. *)
(***************************************************************************)
NoMatch == [start |-> -1, end |-> -1, g1 |-> <<>>, g2 |-> <<>>]

\* the match object: span [p, e), group 1 = t[n0:n1], group 2 = t[s:e]
Match(t, p, n0, n1, s, e) ==
  [start |-> p, end |-> e, g1 |-> Slice(t, n0, n1), g2 |-> Slice(t, s, e)]

\* (\d+|[IVXLCDM]+) at n0: the end of the numeral, or -1.  The first
\* alternative that matches is kept: the rest of each pattern always matches.
NumeralEnd(t, n0) ==
  IF n0 < Len(t) /\ At(t, n0) \in Digit THEN SkipWhile(Digit, t, n0)
  ELSE IF n0 < Len(t) /\ At(t, n0) \in RomanIC THEN SkipWhile(RomanIC, t, n0)
  ELSE -1

\* (?:\.\d+)* at q: greedy, each round needs a dot and at least one digit
RECURSIVE DottedEnd(_, _)
DottedEnd(t, q) ==
  IF q + 1 < Len(t) /\ At(t, q) = "." /\ At(t, q + 1) \in Digit
  THEN DottedEnd(t, SkipWhile(Digit, t, q + 1))
  ELSE q

\* (\d+(?:\.\d+)*) at n0: the end of the dotted number, or -1
DottedNumberEnd(t, n0) ==
  IF n0 < Len(t) /\ At(t, n0) \in Digit
  THEN DottedEnd(t, SkipWhile(Digit, t, n0))
  ELSE -1

\* [-:]? at s1
SeparatorEnd(t, s1) ==
  IF s1 < Len(t) /\ At(t, s1) \in {"-", ":"} THEN s1 + 1 ELSE s1

\* (.*)$ at s3
HeadingAt(t, p, n0, n1, s3) == Match(t, p, n0, n1, s3, LineEnd(t, s3))

\* \s*[-:]?\s*(.*)$ at q, closing the match that began at p with number
\* t[n0:n1].  \s matches "\n" too, so the heading group may lie on a later line.
HeadingTail(t, p, n0, n1, q) ==
  HeadingAt(t, p, n0, n1,
            SkipWhile(Space, t, SeparatorEnd(t, SkipWhile(Space, t, q))))

\* \.? at n1, then the heading tail; no match when the numeral is missing
NumeralTo(t, p, n0, n1) ==
  IF n1 < 0 THEN NoMatch
  ELSE HeadingTail(t, p, n0, n1,
                   IF n1 < Len(t) /\ At(t, n1) = "." THEN n1 + 1 ELSE n1)

\* (\d+|[IVXLCDM]+) at n0, which \s+ reached from k
NumeralFrom(t, p, k, n0) ==
  IF n0 = k THEN NoMatch ELSE NumeralTo(t, p, n0, NumeralEnd(t, n0))

\* \s+(\d+|[IVXLCDM]+)\.?  then the heading tail, after a keyword ending at k
NumeralMarker(t, p, k) == NumeralFrom(t, p, k, SkipWhile(Space, t, k))

\* r'^CHAPTER\s+(\d+|[IVXLCDM]+)\.?\s*[-:]?\s*(.*)$', IGNORECASE | MULTILINE
chapter_pattern(t, p) ==
  IF p < Len(t) /\ LineStart(t, p) /\ At(t, p) \in ChapterKw
  THEN NumeralMarker(t, p, p + 1)
  ELSE NoMatch

\* (?:Article|Art\.?) at p: the end of the keyword, or -1
ArticleKwEnd(t, p) ==
  IF At(t, p) \in ArticleKw THEN p + 1
  ELSE IF At(t, p) \in ArtKw
  THEN (IF p + 1 < Len(t) /\ At(t, p + 1) = "." THEN p + 2 ELSE p + 1)
  ELSE -1

\* r'^(?:Article|Art\.?)\s+(\d+|[IVXLCDM]+)\.?\s*[-:]?\s*(.*)$', IGNORECASE | MULTILINE
article_pattern(t, p) ==
  IF p < Len(t) /\ LineStart(t, p) /\ ArticleKwEnd(t, p) >= 0
  THEN NumeralMarker(t, p, ArticleKwEnd(t, p))
  ELSE NoMatch

\* (?:Section|Sec\.?|§) at p: the end of the keyword, or -1
SectionKwEnd(t, p) ==
  IF At(t, p) \in SectionKw THEN p + 1
  ELSE IF At(t, p) \in SecKw
  THEN (IF p + 1 < Len(t) /\ At(t, p + 1) = "." THEN p + 2 ELSE p + 1)
  ELSE -1

\* the heading tail after the dotted number t[n0:n1]
SectionTo(t, p, n0, n1) ==
  IF n1 < 0 THEN NoMatch ELSE HeadingTail(t, p, n0, n1, n1)

\* (\d+(?:\.\d+)*) at n0, which \s+ reached from k
SectionFrom(t, p, k, n0) ==
  IF n0 = k THEN NoMatch ELSE SectionTo(t, p, n0, DottedNumberEnd(t, n0))

\* r'^(?:Section|Sec\.?|§)\s+(\d+(?:\.\d+)*)\s*[-:]?\s*(.*)$', IGNORECASE | MULTILINE
section_pattern(t, p) ==
  IF p < Len(t) /\ LineStart(t, p) /\ SectionKwEnd(t, p) >= 0
  THEN SectionFrom(t, p, SectionKwEnd(t, p),
                   SkipWhile(Space, t, SectionKwEnd(t, p)))
  ELSE NoMatch

\* \s+(.*)$ from n1 + 1 to s
SubsectionText(t, p, n0, n1, s) ==
  IF s = n1 + 1 THEN NoMatch ELSE Match(t, p, n0, n1, s, LineEnd(t, s))

\* \) at n1
SubsectionClose(t, p, n0, n1) ==
  IF n1 < 0 \/ n1 >= Len(t) \/ At(t, n1) # ")" THEN NoMatch
  ELSE SubsectionText(t, p, n0, n1, SkipWhile(Space, t, n1 + 1))

\* \(([a-z]|\d+) at o
SubsectionOpen(t, p, o) ==
  IF o + 1 >= Len(t) \/ At(t, o) # "(" THEN NoMatch
  ELSE SubsectionClose(t, p, o + 1,
                       IF At(t, o + 1) \in Lower THEN o + 2
                       ELSE IF At(t, o + 1) \in Digit
                       THEN SkipWhile(Digit, t, o + 1)
                       ELSE -1)

\* r'^\s*\(([a-z]|\d+)\)\s+(.*)$', MULTILINE (case-sensitive)
subsection_pattern(t, p) ==
  IF p < Len(t) /\ LineStart(t, p)
  THEN SubsectionOpen(t, p, SkipWhile(Space, t, p))
  ELSE NoMatch

\* list(pattern.finditer(t)): the non-overlapping matches, scanning left to
\* right (ms[p] is the pattern's match at position p, or NoMatch)
finditer(ms) ==
  LET starts == {p \in DOMAIN ms : ms[p] # NoMatch}
      F[from \in 0..Cardinality(DOMAIN ms)] ==
        LET cands == {p \in starts : p >= from}
        IN  IF cands = {} THEN <<>>
            ELSE LET m == ms[Min(cands)] IN <<m>> \o F[m.end]
  IN  F[0]

\* pattern.search(t): the first match, or NoMatch (Python's None)
search(ms) ==
  LET starts == {p \in DOMAIN ms : ms[p] # NoMatch}
  IN  IF starts = {} THEN NoMatch ELSE ms[Min(starts)]

(***************************************************************************)
(* DocumentParser: the extraction chain.                                   *)
(***************************************************************************)
\* "heading if heading else None"
HeadingText(heading) == IF heading = <<>> THEN None ELSE Str(heading)

\* match.group(2).strip()
HeadingOf(m) == HeadingText(Strip(m.g2))

\* the span of every unit running to the end of the text
SpanEnd_ToEnd(matches, i, t) == Len(t)

\* the unit's content span ends at the next match, or at the end of the text
SpanEnd(matches, i, t) ==
  IF i + 1 <= Len(matches) THEN matches[i + 1].start ELSE Len(t)

\* re.sub(r'^\s*\([a-z]|\d+\)\s*', '', content): the end of the match at i,
\* or i when nothing matches there.  The "|" splits the whole pattern:
\* "^\s*\([a-z]" (only at 0: no MULTILINE) or "\d+\)\s*" (anywhere).
CleanupMatchEnd(c, i) ==
  LET o == SkipWhile(Space, c, 0)
      d == SkipWhile(Digit, c, i)
  IN  IF i = 0 /\ o + 1 < Len(c) /\ At(c, o) = "(" /\ At(c, o + 1) \in Lower
      THEN o + 2
      ELSE IF d > i /\ d < Len(c) /\ At(c, d) = ")"
      THEN SkipWhile(Space, c, d + 1)
      ELSE i

RECURSIVE CleanupFrom(_, _)
CleanupFrom(c, i) ==
  IF i >= Len(c) THEN <<>>
  ELSE IF CleanupMatchEnd(c, i) > i THEN CleanupFrom(c, CleanupMatchEnd(c, i))
  ELSE <<At(c, i)>> \o CleanupFrom(c, i + 1)

SubsectionId(num) == "subsec_" \o Str(num)

\* Section(id=..., number=..., content=...) for one subsection match
Subsection(num, content) ==
  [id          |-> SubsectionId(num),
   number      |-> Str(num),
   heading     |-> None,
   content     |-> Str(Strip(CleanupFrom(content, 0))),
   subsections |-> <<>>]

\* "for i, match in enumerate(matches)" of _extract_subsections
Subsections(t, matches) ==
  [i \in 1..Len(matches) |->
    Subsection(matches[i].g1,
               Slice(t, matches[i].start, SpanEnd(matches, i, t)))]

_extract_subsections(t) ==
  Subsections(t, finditer([at \in 0..Len(t) |-> subsection_pattern(t, at)]))

\* the id without the replacement of the dots
SectionId_Dotted(num) == "sec_" \o Str(num)

SectionId(num) == "sec_" \o Str(ReplaceDots(num))

\* the content left whole although a first subsection was found
BeforeFirst_Whole(content, first) == content

\* content[:first_subsection.start()].strip() when there is a first match
BeforeFirst(content, first) ==
  IF first # NoMatch THEN Strip(Slice(content, 0, first.start)) ELSE content

\* the section's own content: cut at the first subsection when there is one
SectionContent(content, subsections) ==
  IF subsections # <<>>
  THEN BeforeFirst(content,
         search([at \in 0..Len(content) |-> subsection_pattern(content, at)]))
  ELSE content

\* Section(id=..., number=..., heading=..., content=..., subsections=...)
Section(m, content, subsections) ==
  [id          |-> SectionId(m.g1),
   number      |-> Str(m.g1),
   heading     |-> HeadingOf(m),
   content     |-> Str(SectionContent(content, subsections)),
   subsections |-> subsections]

\* "subsections = self._extract_subsections(content)"
SectionOf(m, content) == Section(m, content, _extract_subsections(content))

\* "for i, match in enumerate(matches)" of _extract_sections
Sections(t, matches) ==
  [i \in 1..Len(matches) |->
    SectionOf(matches[i],
              Strip(Slice(t, matches[i].end, SpanEnd(matches, i, t))))]

_extract_sections(t) ==
  Sections(t, finditer([at \in 0..Len(t) |-> section_pattern(t, at)]))

ArticleId(num) == "art_" \o Str(num)

\* "for i, match in enumerate(matches)" of _extract_articles
Articles(t, matches) ==
  [i \in 1..Len(matches) |->
    [id       |-> ArticleId(matches[i].g1),
     number   |-> Str(matches[i].g1),
     heading  |-> HeadingOf(matches[i]),
     sections |-> _extract_sections(
                    Slice(t, matches[i].end, SpanEnd(matches, i, t)))]]

_extract_articles(t) ==
  Articles(t, finditer([at \in 0..Len(t) |-> article_pattern(t, at)]))

ChapterId(num) == "chp_" \o Str(num)

\* "for i, match in enumerate(matches)" of _extract_chapters
Chapters(t, matches) ==
  [i \in 1..Len(matches) |->
    [id       |-> ChapterId(matches[i].g1),
     number   |-> Str(matches[i].g1),
     heading  |-> HeadingOf(matches[i]),
     articles |-> _extract_articles(
                    Slice(t, matches[i].end, SpanEnd(matches, i, t)))]]

_extract_chapters(t) ==
  Chapters(t, finditer([at \in 0..Len(t) |-> chapter_pattern(t, at)]))

\* "min(positions) if positions else -1" over the patterns' first matches
FirstPosition(matches) ==
  LET positions == {m.start : m \in matches \ {NoMatch}}
  IN  IF positions = {} THEN -1 ELSE Min(positions)

_find_first_structure(t) ==
  FirstPosition({search([at \in 0..Len(t) |-> chapter_pattern(t, at)]),
                 search([at \in 0..Len(t) |-> article_pattern(t, at)]),
                 search([at \in 0..Len(t) |-> section_pattern(t, at)])})

\* text[preamble_end:] when preamble_end > 0, else the text
TextFrom(t, preamble_end) ==
  IF preamble_end > 0 THEN Slice(t, preamble_end, Len(t)) ELSE t

\* the text handed to the extractors
PostPreamble(t) == TextFrom(t, _find_first_structure(t))

\* the preamble without .strip()
PreambleTo_Untrimmed(t, preamble_end) ==
  IF preamble_end > 0 THEN Str(Slice(t, 0, preamble_end)) ELSE None

\* text[:preamble_end].strip(), set only when preamble_end > 0
PreambleTo(t, preamble_end) ==
  IF preamble_end > 0 THEN Str(Strip(Slice(t, 0, preamble_end))) ELSE None

\* document.preamble
PreambleOf(t) == PreambleTo(t, _find_first_structure(t))

\* LegalDocument(metadata=metadata): the empty document
EmptyDocument ==
  [preamble |-> None, parts |-> <<>>, chapters |-> <<>>, articles |-> <<>>,
   sections |-> <<>>]

\* the articles kept at top level and the sections extracted beside them
ArticlesOrSections_Both(preamble, rest, articles) ==
  [EmptyDocument EXCEPT !.preamble = preamble, !.articles = articles,
                        !.sections = _extract_sections(rest)]

\* "else: document.sections = self._extract_sections(text)"
ArticlesOrSections(preamble, rest, articles) ==
  IF articles # <<>>
  THEN [EmptyDocument EXCEPT !.preamble = preamble, !.articles = articles]
  ELSE [EmptyDocument EXCEPT !.preamble = preamble,
                             !.sections = _extract_sections(rest)]

\* "if chapters: ... else: articles = self._extract_articles(text)"
ChaptersOrArticles(preamble, rest, chapters) ==
  IF chapters # <<>>
  THEN [EmptyDocument EXCEPT !.preamble = preamble, !.chapters = chapters]
  ELSE ArticlesOrSections(preamble, rest, _extract_articles(rest))

\* the chapters of the earlier calls kept in front of this call's
ParseRest_Carried(preamble, rest) ==
  ChaptersOrArticles(preamble, rest, document.chapters \o _extract_chapters(rest))

\* "chapters = self._extract_chapters(text)"
ParseRest(preamble, rest) ==
  ChaptersOrArticles(preamble, rest, _extract_chapters(rest))

\* DocumentParser.parse
parse(t) == ParseRest(PreambleOf(t), PostPreamble(t))


(***************************************************************************)
(* PDFParser.extract_constitution_structure: the line scan.                *)
(***************************************************************************)
PartKwIC == {"PART", "Part", "part"}
PartKwCS == {"PART"}
ArticleKwCS == {"Article"}
Hyphens == {"-", "&ndash;", "&mdash;"}
WordLetters == Upper \cup Lower
ScheduleKw == {"SCHEDULE", "Schedule", "schedule"}
OrdinalKw == {"FIRST", "SECOND", "THIRD", "FOURTH", "FIFTH", "SIXTH", "SEVENTH",
              "EIGHTH", "NINTH", "TENTH", "ELEVENTH", "TWELFTH", "First", "first"}

\* the number of Python characters of a lexeme sequence
LexLen(x) == IF x \in {"&ndash;", "&mdash;", "&sect;"} THEN 1 ELSE Len(x)

CharLen(t) ==
  Cardinality(UNION {{<<k, c>> : c \in 1..LexLen(t[k])} : k \in 1..Len(t)})

\* str.upper() on a numeral
UpperOf(x) ==
  CASE x = "i" -> "I" [] x = "v" -> "V" [] x = "x" -> "X" [] x = "l" -> "L"
    [] x = "c" -> "C" [] x = "d" -> "D" [] x = "m" -> "M" [] OTHER -> x

UpperSeq(t) == [k \in 1..Len(t) |-> UpperOf(t[k])]

\* re.sub('[...]', '', s) for a class of one-character lexemes
Remove(S, t) == SelectSeq(t, LAMBDA x : x \notin S)

\* md_text.split('\n')
RECURSIVE SplitLines(_)
SplitLines(t) ==
  LET e == LineEnd(t, 0)
  IN  IF e = Len(t) THEN <<t>>
      ELSE <<Slice(t, 0, e)>> \o SplitLines(Slice(t, e + 1, Len(t)))

\* \s*[seps]?\s*(.*)$ on one line, after a number l[n0:n1]
TitleTail(seps, l, n0, n1) ==
  LET s1 == SkipWhile(Space, l, n1)
      s2 == IF s1 < Len(l) /\ At(l, s1) \in seps THEN s1 + 1 ELSE s1
      s3 == SkipWhile(Space, l, s2)
  IN  [start |-> 0, end |-> Len(l), g1 |-> Slice(l, n0, n1), g2 |-> Slice(l, s3, Len(l))]

\* PART\s+([IVXLCDM]+)\s*[–—\-\.]?\s*(.*)$ at k
PartAt(kws, roman, l, k) ==
  LET n0 == SkipWhile(Space, l, k + 1)
      n1 == SkipWhile(roman, l, n0)
  IN  IF k < Len(l) /\ At(l, k) \in kws /\ n0 > k + 1 /\ n1 > n0
      THEN TitleTail(Hyphens \cup {"."}, l, n0, n1)
      ELSE NoMatch

\* r'^#{1,2}\s*PART\s+([IVXLCDM]+)\s*[–—\-\.]?\s*(.*)$', IGNORECASE, .match(line)
part_pattern(l) ==
  LET h == SkipWhile({"#"}, l, 0)
  IN  IF h \in 1..2 THEN PartAt(PartKwIC, RomanIC, l, SkipWhile(Space, l, h))
      ELSE NoMatch

\* r'^\s*PART\s+([IVXLCDM]+)\s*[–—\-\.]?\s*(.*)$', .match(line)
part_text_pattern(l) == PartAt(PartKwCS, RomanCS, l, SkipWhile(Space, l, 0))

\* Article\s+(\d+[A-Z]?)\s*[.–—\-]?\s*(.*)$ at k
ArticleAt(kws, letters, l, k) ==
  LET n0 == SkipWhile(Space, l, k + 1)
      d  == SkipWhile(Digit, l, n0)
      n1 == IF d < Len(l) /\ At(l, d) \in letters THEN d + 1 ELSE d
  IN  IF k < Len(l) /\ At(l, k) \in kws /\ n0 > k + 1 /\ d > n0
      THEN TitleTail(Hyphens \cup {"."}, l, n0, n1)
      ELSE NoMatch

\* r'^#{2,4}\s*Article\s+(\d+[A-Z]?)\s*[.–—\-]?\s*(.*)$', IGNORECASE, .match(line)
md_article_pattern(l) ==
  LET h == SkipWhile({"#"}, l, 0)
  IN  IF h \in 2..4 THEN ArticleAt(ArticleKw, WordLetters, l, SkipWhile(Space, l, h))
      ELSE NoMatch

\* r'^\s*Article\s+(\d+[A-Z]?)\s*[.–—\-]?\s*(.*)$', .match(line)
article_text_pattern(l) == ArticleAt(ArticleKwCS, Upper, l, SkipWhile(Space, l, 0))

\* schedule_pattern.search(line): (FIRST|...|TWELFTH)\s+SCHEDULE, IGNORECASE
schedule_pattern(l) ==
  \E p \in 0..Len(l) - 1 :
    /\ At(l, p) \in OrdinalKw
    /\ SkipWhile(Space, l, p + 1) > p + 1
    /\ SkipWhile(Space, l, p + 1) < Len(l)
    /\ At(l, SkipWhile(Space, l, p + 1)) \in ScheduleKw

\* re.sub(r'[#*_]', '', group(2).strip()).strip()
CleanTitle(g2) == Str(Strip(Remove({"#", "*", "_"}, Strip(g2))))

\* "for pattern in patterns: match = ...; if match: break", and "a or b"
RECURSIVE FirstMatch(_)
FirstMatch(ms) ==
  IF ms = <<>> THEN NoMatch
  ELSE IF Head(ms) # NoMatch THEN Head(ms)
  ELSE FirstMatch(Tail(ms))

\* the part a match opens, as appended to structure['parts']
PartRecord(i, line, m) ==
  IF m = NoMatch THEN <<>>
  ELSE << [number   |-> Str(UpperSeq(m.g1)),
           title    |-> CleanTitle(m.g2),
           position |-> i,
           line     |-> Str(line)] >>

\* "part_match = part_pattern.match(line) or part_text_pattern.match(line)"
PartOnLine(i, line) ==
  PartRecord(i, line, FirstMatch(<<part_pattern(line), part_text_pattern(line)>>))

\* "line = line.strip()"
PartOfLine(lines, i) == PartOnLine(i, Strip(lines[i + 1]))

\* the line's part appended whether or not its number was seen
ScanNext_All(ps, seen) == ps

\* "Skip duplicates": the line's part is appended unless its number was seen
ScanNext(ps, seen) == IF ps # <<>> /\ ps[1].number \notin seen THEN ps ELSE <<>>

\* the loop over the lines: lines[i:] scanned with the part numbers in seen
\* already appended
RECURSIVE ScanParts(_, _, _)
ScanParts(lines, i, seen) ==
  IF i >= Len(lines) THEN <<>>
  ELSE ScanNext(PartOfLine(lines, i), seen)
       \o ScanParts(lines, i + 1,
                    seen \cup {q.number : q \in Range(PartOfLine(lines, i))})

ArticleRecord(i, line, m) ==
  IF m = NoMatch THEN <<>>
  ELSE << [number   |-> Str(m.g1),
           title    |-> CleanTitle(m.g2),
           position |-> i,
           line     |-> Str(line)] >>

ArticleOnLine(i, line) ==
  ArticleRecord(i, line,
                FirstMatch(<<md_article_pattern(line), article_text_pattern(line)>>))

ArticleOfLine(lines, i) == ArticleOnLine(i, Strip(lines[i + 1]))

RECURSIVE ScanArticles(_, _)
ScanArticles(lines, i) ==
  IF i >= Len(lines) THEN <<>>
  ELSE ArticleOfLine(lines, i) \o ScanArticles(lines, i + 1)

RECURSIVE ScanSchedules(_, _)
ScanSchedules(lines, i) ==
  IF i >= Len(lines) THEN <<>>
  ELSE (IF schedule_pattern(Strip(lines[i + 1]))
        THEN << [name |-> Str(Strip(lines[i + 1])), position |-> i] >>
        ELSE <<>>) \o ScanSchedules(lines, i + 1)

(***************************************************************************)
(* PDFParser._fix_missing_parts.                                           *)
(***************************************************************************)
\* expected_parts, as lexemes: the numerals the fallback patterns look for
expected_lex ==
  << <<"I">>, <<"I", "I">>, <<"I", "I", "I">>, <<"I", "V">>, <<"V">>,
     <<"V", "I">>, <<"V", "I", "I">>, <<"V", "I", "I", "I">>, <<"I", "X">>,
     <<"X">>, <<"X", "I">>, <<"X", "I", "I">>, <<"X", "I", "I", "I">>,
     <<"X", "I", "V">>, <<"X", "V">>, <<"X", "V", "I">>, <<"X", "V", "I", "I">>,
     <<"X", "V", "I", "I", "I">>, <<"X", "I", "X">>, <<"X", "X">>,
     <<"X", "X", "I">>, <<"X", "X", "I", "I">> >>

expected_parts == [k \in 1..Len(expected_lex) |-> Str(expected_lex[k])]

\* what list.index returns in the model when Python raises ValueError
ValueError == -1

\* expected_parts.index(n)
index(n) ==
  IF \E k \in 1..Len(expected_parts) : expected_parts[k] = n
  THEN (CHOOSE k \in 1..Len(expected_parts) : expected_parts[k] = n) - 1
  ELSE ValueError

Punct == Space \cup Hyphens \cup {"#", "*", ".", ":", "(", ")", "&sect;", "[", "]", "{", "}"}

\* \b at position q: exactly one side is a word character
WordAt(t, q) == q >= 0 /\ q < Len(t) /\ At(t, q) \notin Punct
Boundary(t, q) == WordAt(t, q - 1) # WordAt(t, q)

\* the numeral num at n0, under IGNORECASE
NumeralAt(t, n0, num) ==
  /\ n0 + Len(num) <= Len(t)
  /\ \A k \in 1..Len(num) : UpperOf(At(t, n0 + k - 1)) = num[k]

\* PART\s+{part} at k: the end of the numeral, or -1
PartNumEnd(t, k, num) ==
  IF k < Len(t) /\ At(t, k) \in PartKwIC
     /\ SkipWhile(Space, t, k + 1) > k + 1
     /\ NumeralAt(t, SkipWhile(Space, t, k + 1), num)
  THEN SkipWhile(Space, t, k + 1) + Len(num)
  ELSE -1

Span(a, b) == [start |-> a, end |-> b, g1 |-> <<>>, g2 |-> <<>>]

\* r'\bPART\s+{part}\b'
FixBasic(t, p, num) ==
  IF PartNumEnd(t, p, num) >= 0 /\ Boundary(t, p) /\ Boundary(t, PartNumEnd(t, p, num))
  THEN Span(p, PartNumEnd(t, p, num)) ELSE NoMatch

\* r'^\s*PART\s+{part}\s'
FixLineStart(t, p, num) ==
  LET k == SkipWhile(Space, t, p)
      e == PartNumEnd(t, k, num)
  IN  IF p < Len(t) /\ LineStart(t, p) /\ e >= 0 /\ e < Len(t) /\ At(t, e) \in Space
      THEN Span(p, e + 1) ELSE NoMatch

\* r'#{1,4}\s*PART\s+{part}\b'
FixHeader(t, p, num) ==
  LET h == SkipWhile({"#"}, t, p)
      e == PartNumEnd(t, SkipWhile(Space, t, h), num)
  IN  IF p < Len(t) /\ At(t, p) = "#" /\ h - p <= 4 /\ e >= 0 /\ Boundary(t, e)
      THEN Span(p, e) ELSE NoMatch

\* r'\*\*PART\s+{part}\*\*'
FixBold(t, p, num) ==
  LET e == PartNumEnd(t, p + 2, num)
  IN  IF p + 1 < Len(t) /\ At(t, p) = "*" /\ At(t, p + 1) = "*" /\ e >= 0
         /\ e + 1 < Len(t) /\ At(t, e) = "*" /\ At(t, e + 1) = "*"
      THEN Span(p, e + 2) ELSE NoMatch


\* "for pattern_template in patterns: ... if match: ... break"
FixSearch(t, num) ==
  FirstMatch(<<search([at \in 0..Len(t) |-> FixBasic(t, at, num)]),
               search([at \in 0..Len(t) |-> FixLineStart(t, at, num)]),
               search([at \in 0..Len(t) |-> FixHeader(t, at, num)]),
               search([at \in 0..Len(t) |-> FixBold(t, at, num)])>>)

\* end = start + 100
TitleWindow == 100

\* t[a:a+n] counted in characters, cut between lexemes
RECURSIVE TakeChars(_, _, _)
TakeChars(t, a, n) ==
  IF a >= Len(t) \/ CharLen(<<At(t, a)>>) > n THEN <<>>
  ELSE <<At(t, a)>> \o TakeChars(t, a + 1, n - CharLen(<<At(t, a)>>))

\* str.strip(chars)
StripSet(S, t) ==
  LET keep == {k \in 1..Len(t) : t[k] \notin S}
  IN  IF keep = {} THEN <<>>
      ELSE SubSeq(t, Min(keep), CHOOSE k \in keep : \A j \in keep : j <= k)

\* text[start:end].strip(' -–—.*#\n'), end the next newline or start + 100
FixTitle(t, start) ==
  StripSet(Space \cup Hyphens \cup {".", "*", "#"},
           IF LineEnd(t, start) < Len(t) THEN Slice(t, start, LineEnd(t, start))
           ELSE TakeChars(t, start, TitleWindow))

\* "Find insertion position": the first part that follows expected in the
\* canonical order; a part with an unknown number raises ValueError and is
\* skipped by "except ValueError: continue"
InsertPos(found, expected) ==
  LET later == {i \in 1..Len(found) :
                  /\ index(found[i].number) # ValueError
                  /\ index(expected) < index(found[i].number)}
  IN  IF later = {} THEN Len(found) ELSE Min(later) - 1

\* list.insert(pos, x)
Insert(seq, pos, x) == SubSeq(seq, 1, pos) \o <<x>> \o SubSeq(seq, pos + 1, Len(seq))

Numbers(found) == {found[i].number : i \in 1..Len(found)}

\* 'title': title if title else f"Part {expected}"
TitleOr(title, expected) ==
  IF title # <<>> THEN Str(title) ELSE "Part " \o expected

\* the part recovered for expected_parts[k] from match m
FixedPart(t, k, m) ==
  [number   |-> expected_parts[k],
   title    |-> TitleOr(FixTitle(t, m.end), expected_parts[k]),
   position |-> CharLen(Slice(t, 0, m.start)),
   line     |-> Str(Slice(t, m.start, m.end))]

\* "if match: ... found_parts.insert(insert_pos, {...})"
FixInsert(t, found, k, match) ==
  IF match = NoMatch THEN found
  ELSE Insert(found, InsertPos(found, expected_parts[k]), FixedPart(t, k, match))

\* "if expected not in found_numbers": one round of the loop
FixOne(t, found, k) ==
  IF expected_parts[k] \in Numbers(found) THEN found
  ELSE FixInsert(t, found, k, FixSearch(t, expected_lex[k]))

\* "for expected in expected_parts": found_parts after the loop from
\* expected_parts[k] on (the list is mutated in place)
RECURSIVE FixLoop(_, _, _)
FixLoop(t, found, k) ==
  IF k > Len(expected_parts) THEN found
  ELSE FixLoop(t, FixOne(t, found, k), k + 1)

\* key=lambda x: expected_parts.index(x['number']) if x['number'] in expected_parts else 999
SortLast == 999

\* the key without its "if x['number'] in expected_parts" guard
SortKey_Unguarded(x) == index(x.number)

SortKey(x) ==
  IF \E k \in 1..Len(expected_parts) : expected_parts[k] = x.number
  THEN index(x.number)
  ELSE SortLast

\* sorted(parts, key=...): stable
RECURSIVE SortedFrom(_, _)
SortedFrom(parts, keys) ==
  IF keys = {} THEN <<>>
  ELSE SelectSeq(parts, LAMBDA x : SortKey(x) = Min(keys))
       \o SortedFrom(parts, keys \ {Min(keys)})

\* the list returned as it stands, not sorted
Sorted_AsFound(parts) == parts

Sorted(parts) == SortedFrom(parts, {SortKey(parts[i]) : i \in 1..Len(parts)})

\* sorted() raises when a key cannot be computed
SortRaises(parts) == \E i \in 1..Len(parts) : SortKey(parts[i]) = ValueError

\* _fix_missing_parts(text, found_parts): the returned list
_fix_missing_parts(t, found) == Sorted(FixLoop(t, found, 1))

(***************************************************************************)
(* PDFParser._find_part_vii_specifically.  Every pattern is compiled with  *)
(* MULTILINE | IGNORECASE | DOTALL: "." matches "\n" and ".*?" is lazy.    *)
(***************************************************************************)
StatesKw == {"STATES", "States", "states"}
StateKw == StatesKw \cup {"STATE", "State", "state"}
FirstKw == {"FIRST", "First", "first"}
VII == <<"V", "I", "I">>
VIII == <<"V", "I", "I", "I">>

\* the first of the positions rs, or -1
FirstIn(rs) == IF rs = {} THEN -1 ELSE Min(rs)

StateHere(t, r) == r < Len(t) /\ At(t, r) \in StateKw
StatesHere(t, r) == r < Len(t) /\ At(t, r) \in StatesKw
VIIHere(t, r) == NumeralAt(t, r, VII)

\* PART\s+B at r: its end, or -1
PartBEnd(t, r) ==
  LET b == SkipWhile(Space, t, r + 1)
  IN  IF r < Len(t) /\ At(t, r) \in PartKwIC /\ b > r + 1 /\ b < Len(t)
         /\ At(t, b) \in {"B", "b"}
      THEN b + 1 ELSE -1

PartBHere(t, r) == PartBEnd(t, r) >= 0

\* First\s+Schedule at r
FirstScheduleHere(t, r) ==
  /\ r < Len(t) /\ At(t, r) \in FirstKw
  /\ SkipWhile(Space, t, r + 1) > r + 1
  /\ SkipWhile(Space, t, r + 1) < Len(t)
  /\ At(t, SkipWhile(Space, t, r + 1)) \in ScheduleKw

\* the first position at or after q of STATE(S), STATES, VII, PART B; or -1
FirstState(t, q) == FirstIn({at \in q..Len(t) : StateHere(t, at)})
FirstStates(t, q) == FirstIn({at \in q..Len(t) : StatesHere(t, at)})
FirstVII(t, q) == FirstIn({at \in q..Len(t) : VIIHere(t, at)})
FirstPartB(t, q) == FirstIn({at \in q..Len(t) : PartBHere(t, at)})

\* .*?(?:STATES|STATE) from q: the end of the match, or -1
ThroughState(t, q) ==
  LET r == FirstState(t, q) IN IF r < 0 THEN -1 ELSE r + 1

\* r'PART\s+VII\b.*?(?:STATES|STATE)' and r'Part\s+VII\b.*?(?:STATES|STATE)':
\* one pattern under IGNORECASE
ViiStandard(t, p) ==
  LET e == PartNumEnd(t, p, VII)
  IN  IF e >= 0 /\ Boundary(t, e) /\ ThroughState(t, e) >= 0
      THEN Span(p, ThroughState(t, e)) ELSE NoMatch

\* r'PART\s*[-–—\.]*\s*VII\b.*?(?:STATES|STATE)'
ViiSeparators(t, p) ==
  LET n0 == SkipWhile(Space, t,
              SkipWhile(Hyphens \cup {"."}, t, SkipWhile(Space, t, p + 1)))
      e  == n0 + Len(VII)
  IN  IF p < Len(t) /\ At(t, p) \in PartKwIC /\ VIIHere(t, n0) /\ Boundary(t, e)
         /\ ThroughState(t, e) >= 0
      THEN Span(p, ThroughState(t, e)) ELSE NoMatch

\* r'#{1,4}\s*PART\s+VII\b'
ViiHeader(t, p) == FixHeader(t, p, VII)

\* r'\*\*PART\s+VII\*\*'
ViiBold(t, p) == FixBold(t, p, VII)

\* r'VII\b.*?STATES.*?PART\s+B'
ViiStatesPartB(t, p) ==
  LET s == IF VIIHere(t, p) /\ Boundary(t, p + Len(VII))
           THEN FirstStates(t, p + Len(VII)) ELSE -1
      b == IF s < 0 THEN -1 ELSE FirstPartB(t, s + 1)
  IN  IF b >= 0 THEN Span(p, PartBEnd(t, b)) ELSE NoMatch

\* r'Part\s+B.*?STATES.*?VII'
ViiPartBStates(t, p) ==
  LET s == IF PartBHere(t, p) THEN FirstStates(t, PartBEnd(t, p)) ELSE -1
      v == IF s < 0 THEN -1 ELSE FirstVII(t, s + 1)
  IN  IF v >= 0 THEN Span(p, v + Len(VII)) ELSE NoMatch

\* r'(?:PART\s+B|Part\s+B).*?VII|VII.*?(?:PART\s+B|Part\s+B)'
ViiNearPartB(t, p) ==
  IF PartBHere(t, p) /\ FirstVII(t, PartBEnd(t, p)) >= 0
  THEN Span(p, FirstVII(t, PartBEnd(t, p)) + Len(VII))
  ELSE IF VIIHere(t, p) /\ FirstPartB(t, p + Len(VII)) >= 0
  THEN Span(p, PartBEnd(t, FirstPartB(t, p + Len(VII))))
  ELSE NoMatch

\* the end of the stop found at r: STATES, or First\s+Schedule
NumeralLineStop(t, r) ==
  IF r < 0 THEN -1
  ELSE IF StatesHere(t, r) THEN r + 1
  ELSE SkipWhile(Space, t, r + 1) + 1

\* VII[.\s\-–—]+.*?(?:STATES|First\s+Schedule) at v: the end, or -1
NumeralLineFrom(t, v) ==
  IF VIIHere(t, v) /\ v + Len(VII) < Len(t)
     /\ At(t, v + Len(VII)) \in Space \cup Hyphens \cup {"."}
  THEN NumeralLineStop(t, FirstIn({at \in (v + Len(VII) + 1)..Len(t) :
                                     StatesHere(t, at) \/ FirstScheduleHere(t, at)}))
  ELSE -1

\* \s*VII[.\s\-–—]+.*?(?:STATES|First\s+Schedule) from q: the end, or -1
NumeralLineEnd(t, q) == NumeralLineFrom(t, SkipWhile(Space, t, q))

\* the match from p that ends at a (after "^") or else at b (after "\n")
NumeralLineSpan(p, a, b) ==
  IF a >= 0 THEN Span(p, a) ELSE IF b >= 0 THEN Span(p, b) ELSE NoMatch

\* r'(?:^|\n)\s*VII[.\s\-–—]+.*?(?:STATES|First\s+Schedule)'
ViiNumeralLine(t, p) ==
  NumeralLineSpan(p,
    IF p <= Len(t) /\ LineStart(t, p) THEN NumeralLineEnd(t, p) ELSE -1,
    IF p < Len(t) /\ At(t, p) = "\n" THEN NumeralLineEnd(t, p + 1) ELSE -1)

\* "for pattern_str in part_vii_patterns: ... if match: ... break"
ViiSearch(t) ==
  FirstMatch(<<search([at \in 0..Len(t) |-> ViiStandard(t, at)]),
               search([at \in 0..Len(t) |-> ViiSeparators(t, at)]),
               search([at \in 0..Len(t) |-> ViiHeader(t, at)]),
               search([at \in 0..Len(t) |-> ViiBold(t, at)]),
               search([at \in 0..Len(t) |-> ViiStatesPartB(t, at)]),
               search([at \in 0..Len(t) |-> ViiPartBStates(t, at)]),
               search([at \in 0..Len(t) |-> ViiNearPartB(t, at)]),
               search([at \in 0..Len(t) |-> ViiNumeralLine(t, at)])>>)

\* (?:\n|PART\s+VIII) at r
ContextStop(t, r) ==
  r < Len(t) /\ (At(t, r) = "\n" \/ PartNumEnd(t, r, VIII) >= 0)

\* vii_context_pattern, r'PART\s+VII\s*[–—\-\.]*\s*(.{0,100}?)(?:\n|PART\s+VIII)'
\* anchored at p; g1 is group 1.  The greedy \s*[...]*\s* runs to q; when no stop
\* follows q within 100 characters the engine backtracks into the white space
\* it consumed, and the only matches left end at a "\n" inside it with an empty
\* group.
ContextTo(t, p, e, q, rs) ==
  IF rs # {} THEN [Span(p, Min(rs) + 1) EXCEPT !.g1 = Slice(t, q, Min(rs))]
  ELSE IF \E r \in e..q - 1 : At(t, r) = "\n" THEN Span(p, q)
  ELSE NoMatch

ContextTitle(t, p, e, q) ==
  ContextTo(t, p, e, q,
            {r \in q..Len(t) : ContextStop(t, r)
                                /\ CharLen(Slice(t, q, r)) <= TitleWindow})

ContextFrom(t, p, e) ==
  IF e < 0 THEN NoMatch
  ELSE ContextTitle(t, p, e,
         SkipWhile(Space, t,
           SkipWhile(Hyphens \cup {"."}, t, SkipWhile(Space, t, e))))

vii_context_pattern(t, p) == ContextFrom(t, p, PartNumEnd(t, p, VII))

\* re.sub(r'\s+', ' ', s)
RECURSIVE CollapseSpace(_)
CollapseSpace(t) ==
  IF t = <<>> THEN <<>>
  ELSE IF Head(t) \in Space
  THEN <<" ">> \o CollapseSpace(Slice(t, SkipWhile(Space, t, 0), Len(t)))
  ELSE <<Head(t)>> \o CollapseSpace(Tail(t))

DefaultViiTitle == "THE STATES IN PART B OF THE FIRST SCHEDULE"

\* "if 5 < len(title_text) < 100: title = title_text"
ViiContextTitle(m, x) ==
  IF m # NoMatch /\ CharLen(x) > 5 /\ CharLen(x) < 100 THEN Str(x)
  ELSE DefaultViiTitle

\* re.sub(r'[#*_\[\](){}]', '', title_text), re.sub(r'\s+', ' ', ...).strip()
ViiTitleOf(m) ==
  ViiContextTitle(m, Strip(CollapseSpace(
    Remove({"#", "*", "_", "[", "]", "(", ")", "{", "}"}, Strip(m.g1)))))

\* "Try to extract actual title from text"
ViiTitle(t) ==
  ViiTitleOf(search([at \in 0..Len(t) |-> vii_context_pattern(t, at)]))

\* "Insert before Part VIII or later"
ViiInsertPos(found) ==
  LET later == {i \in 1..Len(found) : found[i].number \in {"VIII", "IX", "X"}}
  IN  IF later = {} THEN Len(found) ELSE Min(later) - 1

\* the part inserted for Part VII: located by match, or the placeholder
ViiPartOf(t, match) ==
  IF match # NoMatch
  THEN [number   |-> "VII",
        title    |-> ViiTitle(t),
        position |-> CharLen(Slice(t, 0, match.start)),
        line     |-> Str(TakeChars(Slice(t, match.start, match.end),
                                   0, TitleWindow))]
  ELSE [number   |-> "VII",
        title    |-> DefaultViiTitle,
        position |-> -1,
        line     |-> "PART VII (manually added)"]

ViiPart(t) == ViiPartOf(t, ViiSearch(t))

\* found_parts after the insert (the caller's list is mutated in place)
ViiInserted(t, found) == Insert(found, ViiInsertPos(found), ViiPart(t))

\* _find_part_vii_specifically(text, found_parts): the returned list
_find_part_vii_specifically(t, found) == Sorted(ViiInserted(t, found))

\* extract_constitution_structure(md_text): structure['parts'] after each stage
ScannedParts(t) == ScanParts(SplitLines(t), 0, {})

\* "if len(structure['parts']) < 22"
FixIfShort(t, parts) ==
  IF Len(parts) < Len(expected_parts) THEN _fix_missing_parts(t, parts) ELSE parts

PartsAfterFix(t) == FixIfShort(t, ScannedParts(t))

\* the Part VII pass run without the test for a Part VII already there
ViiIfMissing_Always(t, parts) == _find_part_vii_specifically(t, parts)

\* "if 'VII' not in part_numbers"
ViiIfMissing(t, parts) ==
  IF "VII" \notin Numbers(parts) THEN _find_part_vii_specifically(t, parts)
  ELSE parts

PartsAfterVii(t) == ViiIfMissing(t, PartsAfterFix(t))

extract_constitution_structure(t) ==
  [parts     |-> PartsAfterVii(t),
   articles  |-> ScanArticles(SplitLines(t), 0),
   schedules |-> ScanSchedules(SplitLines(t), 0)]

(***************************************************************************)
(* Inputs.  A text is at most MaxLines lines, each one of LineShapes,      *)
(* joined by "\n".  In every shape a keyword is followed by white space    *)
(* and a numeral, and a numeral is never directly followed by a word: on   *)
(* such texts the lexeme matchers above agree with Python's re character   *)
(* by character.                                                           *)
(***************************************************************************)
MaxLines == 4

LineShapes ==
  { <<>>,
    <<"body", " ", "Section", " ", "1">>,
    <<"CHAPTER", " ", "1">>,
    <<"CHAPTER", " ", "I", "I", " ", "-", " ", "body">>,
    <<"Article", " ", "1">>,
    <<"Article", " ", "3", "1", "A">>,
    <<"Art", ".", " ", "2", ":", " ", "body">>,
    <<"Section", " ", "1">>,
    <<"Section", " ", "2", ".", "1", ".", "3", " ", "body">>,
    <<"(", "a", ")", " ", "body">>,
    <<"(", "b", ")", " ", "body">>,
    <<"(", "1", ")", " ", "body">> }

RECURSIVE JoinLines(_)
JoinLines(ls) ==
  IF ls = <<>> THEN <<>>
  ELSE IF Len(ls) = 1 THEN ls[1]
  ELSE ls[1] \o <<"\n">> \o JoinLines(Tail(ls))

TextsUpTo(shapes, n) ==
  UNION {{JoinLines(ls) : ls \in [1..k -> shapes]} : k \in 0..n}

\* markdown given to extract_constitution_structure
MaxPdfLines == 3
\* markdown and found parts given to a repair pass called on its own
MaxRepairLines == 2
MaxFound == 2

PdfLineShapes ==
  { <<>>,
    <<"PART", " ", "I">>,
    <<"PART", " ", "I", "I", "I", " ", "-", " ", "FREEDOMS">>,
    <<"*", "*", "PART", " ", "I", "I", "I", "*", "*">>,
    <<"#", "#", "#", " ", "PART", " ", "I", "V", " ", "FREEDOMS">>,
    <<"PART", " ", "V", "I", "I", "I", ".", "FREEDOMS">>,
    <<"PART", " ", "V", "I", "I", " ", "STATES">>,
    <<"V", "I", "I", ".", " ", "FREEDOMS", " ", "STATES">>,
    <<"PART", " ", "X", "X", "I", "I", "I", " ", "FREEDOMS">>,
    <<"#", " ", "part", " ", "i", " ", "-", " ", "FREEDOMS">>,
    <<"#", "#", " ", "Article", " ", "1", "2", "A", " ", "FIRST", " ", "SCHEDULE">> }

FoundNumbers == {"II", "IV", "XXIII"}

\* a found part as the line scan records it; position tells equal numbers apart
FoundPart(n, i) ==
  [number |-> n, title |-> "T", position |-> i - 1, line |-> "PART " \o n]

FoundLists ==
  UNION {{[i \in 1..k |-> FoundPart(ns[i], i)] : ns \in [1..k -> FoundNumbers]} :
         k \in 0..MaxFound}

EmptyStructure == [parts |-> <<>>, articles |-> <<>>, schedules |-> <<>>]

\* parser = DocumentParser(), before parser.parse(text)
Init ==
  /\ pc = "init"
  /\ text \in TextsUpTo(LineShapes, MaxLines)
  /\ document = EmptyDocument
  /\ md_text = <<>>
  /\ found_parts = <<>>
  /\ structure = EmptyStructure
  /\ returned = <<>>
  /\ raised = FALSE
  /\ calls = <<>>

\* parser = PDFParser(), before one of its operations is called
InitPDF ==
  /\ pc = "pdf"
  /\ \/ md_text \in TextsUpTo(PdfLineShapes, MaxPdfLines) /\ found_parts = <<>>
     \/ md_text \in TextsUpTo(PdfLineShapes, MaxRepairLines) /\ found_parts \in FoundLists
  /\ text = <<>>
  /\ document = EmptyDocument
  /\ structure = EmptyStructure
  /\ returned = <<>>
  /\ raised = FALSE
  /\ calls = <<>>

\* parser.parse(text).  No statement of parse can raise: min() is guarded by
\* "if positions" and matches[i + 1] by "i + 1 < len(matches)".
Parse ==
  /\ pc = "init"
  /\ pc' = "parsed"
  /\ document' = parse(text)
  /\ raised' = FALSE
  /\ calls' = Append(calls, [text |-> text, document |-> document'])
  /\ UNCHANGED <<text, md_text, found_parts, structure, returned>>

\* sorted() at the end of the repair passes the pipeline runs
ViiRaises(t, fixed) ==
  "VII" \notin Numbers(fixed) /\ SortRaises(ViiInserted(t, fixed))

FixRaises(t, scanned) ==
  Len(scanned) < Len(expected_parts) /\ SortRaises(FixLoop(t, scanned, 1))

ScanRaises(t, scanned) ==
  FixRaises(t, scanned) \/ ViiRaises(t, FixIfShort(t, scanned))

ExtractRaises(t) == ScanRaises(t, ScannedParts(t))

\* parser.extract_constitution_structure(md_text)
Extract ==
  /\ pc = "pdf"
  /\ found_parts = <<>>
  /\ pc' = "extracted"
  /\ raised' = ExtractRaises(md_text)
  /\ structure' = IF raised' THEN structure
                  ELSE extract_constitution_structure(md_text)
  /\ UNCHANGED <<text, document, md_text, found_parts, returned, calls>>

\* parser._fix_missing_parts(md_text, found_parts)
FixMissing ==
  /\ pc = "pdf"
  /\ pc' = "fixed"
  /\ found_parts' = FixLoop(md_text, found_parts, 1)
  /\ raised' = SortRaises(found_parts')
  /\ returned' = IF raised' THEN returned ELSE Sorted(found_parts')
  /\ UNCHANGED <<text, document, md_text, structure, calls>>

\* parser._find_part_vii_specifically(md_text, found_parts)
FindVii ==
  /\ pc = "pdf"
  /\ pc' = "vii"
  /\ found_parts' = ViiInserted(md_text, found_parts)
  /\ raised' = SortRaises(found_parts')
  /\ returned' = IF raised' THEN returned ELSE Sorted(found_parts')
  /\ UNCHANGED <<text, document, md_text, structure, calls>>

\* the texts of a series of calls on one parser
MaxCalls == 3

CallShapes ==
  { <<"CHAPTER", " ", "1">>,
    <<"Article", " ", "1">>,
    <<"Section", " ", "2", ".", "1", ".", "3", " ", "body">>,
    <<"(", "a", ")", " ", "body">> }

CallTexts ==
  {<<>>} \cup CallShapes \cup {JoinLines(<<a, b>>) : a, b \in CallShapes}

\* parser = DocumentParser(), before the first of a series of calls
InitCalls ==
  /\ pc = "init"
  /\ text \in CallTexts
  /\ document = EmptyDocument
  /\ md_text = <<>>
  /\ found_parts = <<>>
  /\ structure = EmptyStructure
  /\ returned = <<>>
  /\ raised = FALSE
  /\ calls = <<>>

\* a further parser.parse(t) on the same DocumentParser
ParseNext ==
  /\ pc = "parsed"
  /\ Len(calls) < MaxCalls
  /\ \E t \in CallTexts :
       /\ text' = t
       /\ document' = parse(t)
       /\ calls' = Append(calls, [text |-> t, document |-> document'])
  /\ raised' = FALSE
  /\ UNCHANGED <<pc, md_text, found_parts, structure, returned>>

\* texts whose markers carry the same numeral at several levels, the
\* articles with and without a letter suffix
MaxIdLines == 3

IdShapes ==
  { <<"CHAPTER", " ", "3", "1", " ", "body">>,
    <<"Article", " ", "3", "1", " ", "body">>,
    <<"Article", " ", "3", "1", "A">>,
    <<"Section", " ", "3", "1", " ", "body">>,
    <<"(", "1", ")", " ", "body">> }

\* parser = DocumentParser(), before parser.parse(text) on such a text
InitIds ==
  /\ pc = "init"
  /\ text \in TextsUpTo(IdShapes, MaxIdLines)
  /\ document = EmptyDocument
  /\ md_text = <<>>
  /\ found_parts = <<>>
  /\ structure = EmptyStructure
  /\ returned = <<>>
  /\ raised = FALSE
  /\ calls = <<>>

\* a markdown outline of 22 part lines "PART N", the k-th canonical number
\* replaced by the unknown XXIII, followed by one more line
OutlineLine(k, n) ==
  <<"PART", " ">> \o (IF n = k THEN <<"X", "X", "I", "I", "I">> ELSE expected_lex[n])

Outline(k, last) ==
  JoinLines([n \in 1..Len(expected_lex) + 1 |->
               IF n <= Len(expected_lex) THEN OutlineLine(k, n) ELSE last])

\* parser = PDFParser(), before an operation is called on such an outline
InitOutline ==
  /\ pc = "pdf"
  /\ \E k \in 1..Len(expected_lex) : \E last \in PdfLineShapes :
       md_text = Outline(k, last)
  /\ found_parts = <<>>
  /\ text = <<>>
  /\ document = EmptyDocument
  /\ structure = EmptyStructure
  /\ returned = <<>>
  /\ raised = FALSE
  /\ calls = <<>>

Next == Parse

NextCalls == Parse \/ ParseNext

NextPDF == Extract \/ FixMissing \/ FindVii

NextCore == Parse \/ Extract \/ FixMissing \/ FindVii

\* DocumentParser
Spec == Init /\ [][Next]_vars

\* DocumentParser on texts with equal numerals
SpecIds == InitIds /\ [][Next]_vars

\* DocumentParser, called several times
SpecCalls == InitCalls /\ [][NextCalls]_vars

\* PDFParser
SpecPDF == InitPDF /\ [][NextPDF]_vars

\* PDFParser on outlines of 22 parts
SpecOutline == InitOutline /\ [][NextPDF]_vars

\* both parsers: the core
SpecCore == (Init \/ InitPDF) /\ [][NextCore]_vars

(***************************************************************************)
(* Properties of DocumentParser.parse.  A marker is a line the level's     *)
(* pattern accepts, named by the position of its first lexeme.             *)
(***************************************************************************)
ChapterMarkers(t) == {p \in 0..Len(t) - 1 : chapter_pattern(t, p) # NoMatch}
ArticleMarkers(t) == {p \in 0..Len(t) - 1 : article_pattern(t, p) # NoMatch}
SectionMarkers(t) == {p \in 0..Len(t) - 1 : section_pattern(t, p) # NoMatch}

\* the i-th smallest element of a set of positions
Nth(S, i) == CHOOSE p \in S : Cardinality({q \in S : q < p}) = i - 1

\* the marker after p among S, or the end of the text
NextMarker(t, S, p) == Min({q \in S \cup {Len(t)} : q > p})

\* every marker of S is followed by content of its own: something other than
\* white space stands between the end of its line and the next marker
OwnContent(t, S) ==
  \A p \in S : Strip(Slice(t, LineEnd(t, p), NextMarker(t, S, p))) # <<>>

\* C1: for a text with N >= 1 chapter markers, each followed by its own
\* content, parse returns exactly N chapters in the order of their markers,
\* and the marker lines with the content spans between them cover the whole
\* post-preamble text: no text lies before the first chapter marker.
C1_ChaptersPartition ==
  pc = "parsed" =>
    LET rest  == PostPreamble(text)
        marks == ChapterMarkers(rest)
    IN  (marks # {} /\ OwnContent(rest, marks)) =>
          /\ Len(document.chapters) = Cardinality(marks)
          /\ \A i \in 1..Len(document.chapters) :
               document.chapters[i].number
                 = Str(chapter_pattern(rest, Nth(marks, i)).g1)
          /\ 0 \in marks

\* the count and order of C1 without the cover: holds, so the gap before the
\* first chapter is the whole divergence
C1_CountAndOrder ==
  pc = "parsed" =>
    LET rest  == PostPreamble(text)
        marks == ChapterMarkers(rest)
    IN  (marks # {} /\ OwnContent(rest, marks)) =>
          /\ Len(document.chapters) = Cardinality(marks)
          /\ \A i \in 1..Len(document.chapters) :
               document.chapters[i].number
                 = Str(chapter_pattern(rest, Nth(marks, i)).g1)

\* the earliest chapter, article or section marker of t, or -1
EarliestMarker(t) ==
  LET S == ChapterMarkers(t) \cup ArticleMarkers(t) \cup SectionMarkers(t)
  IN  IF S = {} THEN -1 ELSE Min(S)

\* C2: when the earliest chapter/article/section marker is at p > 0 the
\* preamble is text[0:p] trimmed and extraction runs on the text from p on;
\* when it is at 0 or there is no marker, no preamble is set and extraction
\* runs on the whole text.
C2_Preamble ==
  pc = "parsed" =>
    LET p == EarliestMarker(text)
    IN  IF p > 0
        THEN /\ document.preamble = Str(Strip(SubSeq(text, 1, p)))
             /\ PostPreamble(text) = SubSeq(text, p + 1, Len(text))
             /\ document = ParseRest(document.preamble,
                                     SubSeq(text, p + 1, Len(text)))
        ELSE /\ document.preamble = None
             /\ PostPreamble(text) = text
             /\ document = ParseRest(None, text)

\* a parsed text with a preamble of several lexemes before its first marker
C2_Witness ==
  /\ pc = "parsed"
  /\ EarliestMarker(text) > 1
  /\ document.preamble \notin {None, ""}
  /\ document.chapters # <<>>

\* C3: a text with no chapter marker and K >= 1 article markers gives no
\* chapters and exactly K top-level articles in source order; a text with
\* neither gives its sections as top-level sections.
C3_FallbackChain ==
  pc = "parsed" =>
    LET rest == PostPreamble(text)
    IN  /\ (ChapterMarkers(rest) = {} /\ ArticleMarkers(rest) # {}) =>
             /\ document.chapters = <<>>
             /\ Len(document.articles) = Cardinality(ArticleMarkers(rest))
             /\ \A i \in 1..Len(document.articles) :
                  document.articles[i].number
                    = Str(article_pattern(rest, Nth(ArticleMarkers(rest), i)).g1)
        /\ (ChapterMarkers(rest) = {} /\ ArticleMarkers(rest) = {}) =>
             /\ document.chapters = <<>>
             /\ document.articles = <<>>
             /\ Len(document.sections) = Len(_extract_sections(rest))
             /\ document.sections = _extract_sections(rest)

\* the content spans the extractors cut: from the end of each match to the
\* start of the next one (sections strip theirs)
ChapterSpans(t) ==
  LET ms == finditer([at \in 0..Len(t) |-> chapter_pattern(t, at)])
  IN  [i \in 1..Len(ms) |-> Slice(t, ms[i].end, SpanEnd(ms, i, t))]

ArticleSpans(t) ==
  LET ms == finditer([at \in 0..Len(t) |-> article_pattern(t, at)])
  IN  [i \in 1..Len(ms) |-> Slice(t, ms[i].end, SpanEnd(ms, i, t))]

SectionSpans(t) ==
  LET ms == finditer([at \in 0..Len(t) |-> section_pattern(t, at)])
  IN  [i \in 1..Len(ms) |-> Strip(Slice(t, ms[i].end, SpanEnd(ms, i, t)))]

\* the end of the number that follows the "(" at o, or -1
MarkNumberEnd(c, o) ==
  IF o + 1 >= Len(c) THEN -1
  ELSE IF At(c, o + 1) \in Lower THEN o + 2
  ELSE IF At(c, o + 1) \in Digit THEN SkipWhile(Digit, c, o + 1)
  ELSE -1

\* the subsection markers of c: each "(" that opens "(x)" followed by white
\* space, with nothing but white space before it on its line
SubsectionMarks(c) ==
  {o \in 0..Len(c) - 1 :
     /\ At(c, o) = "("
     /\ \A q \in 0..o - 1 :
          (\A r \in q..o - 1 : At(c, r) # "\n") => At(c, q) \in Space
     /\ LET n1 == MarkNumberEnd(c, o)
        IN  /\ n1 >= 0 /\ n1 + 1 < Len(c)
            /\ At(c, n1) = ")" /\ At(c, n1 + 1) \in Space}

\* every marker "(x)" has its text on its own line, as in "(a) ... (b) ..."
MarksHaveText(c, marks) ==
  \A o \in marks :
    Strip(Slice(c, MarkNumberEnd(c, o) + 1, LineEnd(c, o))) # <<>>

\* section sec, extracted from the trimmed span c, is truncated as C4 says
Truncated(sec, c) ==
  LET marks == SubsectionMarks(c)
  IN  IF marks = {}
      THEN sec.content = Str(c) /\ sec.subsections = <<>>
      ELSE MarksHaveText(c, marks) =>
             /\ sec.content = Str(Strip(SubSeq(c, 1, Min(marks))))
             /\ Len(sec.subsections) = Cardinality(marks)
             /\ \A k \in 1..Len(sec.subsections) :
                  sec.subsections[k].number
                    = Str(Slice(c, Nth(marks, k) + 1,
                                MarkNumberEnd(c, Nth(marks, k))))

SectionsTruncated(sections, t) ==
  /\ Len(sections) = Len(SectionSpans(t))
  /\ \A i \in 1..Len(sections) : Truncated(sections[i], SectionSpans(t)[i])

\* C4: a section whose content span holds subsection markers "(a) ... (b) ..."
\* has as content the trimmed text before the first marker and one subsection
\* per marker, in source order, numbered as the markers; a section without
\* subsection markers keeps its whole trimmed span and has no subsections.
C4_SubsectionTruncation ==
  pc = "parsed" =>
    LET rest == PostPreamble(text)
    IN  /\ document.sections # <<>> => SectionsTruncated(document.sections, rest)
        /\ \A j \in 1..Len(document.articles) :
             SectionsTruncated(document.articles[j].sections, ArticleSpans(rest)[j])
        /\ \A c \in 1..Len(document.chapters) :
             \A j \in 1..Len(document.chapters[c].articles) :
               SectionsTruncated(document.chapters[c].articles[j].sections,
                                 ArticleSpans(ChapterSpans(rest)[c])[j])

\* a section with text before "(a)" and the two subsections a and b
C4_Witness ==
  /\ pc = "parsed"
  /\ \E i \in 1..Len(document.sections) :
       /\ document.sections[i].content = "body Section 1"
       /\ Len(document.sections[i].subsections) = 2
       /\ document.sections[i].subsections[1].number = "a"
       /\ document.sections[i].subsections[2].number = "b"

\* the units of the returned document, level by level
DocArticles ==
  Range(document.articles)
    \cup UNION {Range(c.articles) : c \in Range(document.chapters)}
DocSections ==
  Range(document.sections) \cup UNION {Range(a.sections) : a \in DocArticles}
DocSubsections == UNION {Range(s.subsections) : s \in DocSections}

\* the number text with each dot replaced by an underscore
RECURSIVE Underscored(_)
Underscored(num) ==
  IF num = <<>> THEN ""
  ELSE (IF Head(num) = "." THEN "_" ELSE Head(num)) \o Underscored(Tail(num))

\* the dotted numbers that occur in t
DottedNumbers(t) ==
  {Slice(t, a, b) : a \in 0..Len(t), b \in 0..Len(t)}
    \cap {num \in Seq(Digit \cup {"."}) : num # <<>>}

\* C5: ids are the level's prefix followed by the number text: "chp_",
\* "art_", "subsec_" with the number as it is, "sec_" with every dot of the
\* number replaced by an underscore; the number field keeps the source text.
C5_IdDerivation ==
  pc = "parsed" =>
    /\ \A c \in Range(document.chapters) : c.id = "chp_" \o c.number
    /\ \A a \in DocArticles : a.id = "art_" \o a.number
    /\ \A u \in DocSubsections : u.id = "subsec_" \o u.number
    /\ \A x \in DocSections :
         \E num \in DottedNumbers(text) :
           x.number = Str(num) /\ x.id = "sec_" \o Underscored(num)

\* a section numbered "2.1.3" under an article
C5_Witness ==
  /\ pc = "parsed"
  /\ document.articles # <<>>
  /\ \E x \in DocSections : x.number = "2.1.3" /\ x.id = "sec_2_1_3"

\* C6: the line "Article 31A" yields an article with number "31A" and id
\* "art_31A": the letter suffix belongs to the number, not to the heading.
C6_ArticleSuffix ==
  (/\ pc = "parsed"
   /\ ChapterMarkers(text) = {}
   /\ Len(text) >= 5
   /\ SubSeq(text, 1, 5) = <<"Article", " ", "3", "1", "A">>
   /\ Len(text) > 5 => text[6] = "\n") =>
    /\ document.articles # <<>>
    /\ document.articles[1].number = "31A"
    /\ document.articles[1].id = "art_31A"

(***************************************************************************)
(* Properties of PDFParser's repair passes.                                *)
(***************************************************************************)
\* the place of part number n in the canonical sequence, unknown numbers last
Rank(n) ==
  IF \E k \in 1..Len(expected_parts) : expected_parts[k] = n
  THEN CHOOSE k \in 1..Len(expected_parts) : expected_parts[k] = n
  ELSE Len(expected_parts) + 1

InCanonicalOrder(parts) ==
  \A i, j \in 1..Len(parts) : i < j => Rank(parts[i].number) <= Rank(parts[j].number)

\* the line "PART N - FREEDOMS" for the k-th canonical number
TitledLine(k) ==
  <<"PART", " ">> \o expected_lex[k] \o <<" ", "-", " ", "FREEDOMS">>

HasLine(t, line) == \E i \in 1..Len(SplitLines(t)) : SplitLines(t)[i] = line

\* part i of parts stands between its canonical neighbours
Between(parts, i) ==
  /\ \A j \in 1..i - 1 : Rank(parts[j].number) < Rank(parts[i].number)
  /\ \A j \in i + 1..Len(parts) : Rank(parts[j].number) > Rank(parts[i].number)

\* _fix_missing_parts is called on a list in canonical order that lacks the
\* k-th canonical number, with a text that has the line "PART N - FREEDOMS"
RepairsMissing(k) ==
  /\ pc = "pdf" /\ pc' = "fixed"
  /\ InCanonicalOrder(found_parts)
  /\ expected_parts[k] \notin Numbers(found_parts)
  /\ HasLine(md_text, TitledLine(k))

\* C7 as stated: the returned list has part N between its canonical
\* neighbours, titled with the text of the line "PART N - TITLE" after the
\* number, separators stripped: "FREEDOMS".
C7_RepairTitledLine ==
  [][\A k \in 1..Len(expected_parts) :
       RepairsMissing(k) =>
         \E i \in 1..Len(returned') :
           /\ returned'[i].number = expected_parts[k]
           /\ Between(returned', i)
           /\ returned'[i].title = "FREEDOMS"]_vars

\* C8: the parts list returned by extract_constitution_structure holds every
\* canonical part number: a number that is neither found nor matched by a
\* fallback pattern gets a placeholder.
C8_EveryCanonicalPart ==
  pc = "extracted" =>
    \A k \in 1..Len(expected_parts) :
      expected_parts[k] \in Numbers(structure.parts)

\* the parts with a number outside the canonical sequence, in list order
Unknowns(parts) ==
  SelectSeq(parts, LAMBDA x : \A k \in 1..Len(expected_parts) :
                                 expected_parts[k] # x.number)

\* C9: the list each repair pass returns is in canonical order whatever the
\* order on entry; parts with unknown numbers raise nothing, come last and
\* keep their relative order.
C9_CanonicalOrder ==
  [][(pc = "pdf" /\ pc' \in {"fixed", "vii"}) =>
       /\ ~raised'
       /\ Len(returned') = Len(found_parts')
       /\ InCanonicalOrder(returned')
       /\ Unknowns(returned') = Unknowns(found_parts)]_vars

\* Part VII added behind an unknown part and a canonical one that were out of
\* order on entry, and the three returned in canonical order
C9_Witness ==
  /\ pc = "vii"
  /\ Len(found_parts) = 3
  /\ found_parts[1].number = "XXIII" /\ found_parts[2].number = "II"
  /\ returned[1].number = "II" /\ returned[2].number = "VII"
  /\ returned[3].number = "XXIII"

(***************************************************************************)
(* Properties of the core as a whole.                                      *)
(***************************************************************************)
\* C10: no operation raises, whatever the text: empty, without markers, or
\* with part numbers outside the canonical sequence; parse of a text without
\* chapter, article and section markers returns the empty document.
C10_NeverRaises ==
  /\ ~raised
  /\ pc = "parsed" =>
       /\ DOMAIN document = DOMAIN EmptyDocument
       /\ EarliestMarker(text) = -1 => document = EmptyDocument
  /\ pc = "extracted" => DOMAIN structure = DOMAIN EmptyStructure

\* a structure returned for a text with part XXIII, outside the canonical
\* sequence
C10_Witness ==
  /\ pc = "extracted"
  /\ ~raised
  /\ "XXIII" \in Numbers(structure.parts)
  /\ "III" \in Numbers(structure.parts)

(***************************************************************************)
(* Properties of the returned tree.                                        *)
(***************************************************************************)
\* the top-level sequences of the document that are not empty
Populated(doc) ==
  {f \in {"parts", "chapters", "articles", "sections"} : doc[f] # <<>>}

\* C11: the document parse returns never has more than one of parts,
\* chapters, articles, sections non-empty, and has exactly one non-empty when
\* the text has at least one chapter, article or section marker.
C11_TopLevelExclusive ==
  pc = "parsed" =>
    /\ Cardinality(Populated(document)) <= 1
    /\ EarliestMarker(text) # -1 => Cardinality(Populated(document)) = 1

\* a text with an article marker and a section marker and no chapter marker:
\* only the articles are populated, the section lies inside an article
C11_Witness ==
  /\ pc = "parsed"
  /\ ChapterMarkers(text) = {}
  /\ ArticleMarkers(text) # {} /\ SectionMarkers(text) # {}
  /\ Populated(document) = {"articles"}
  /\ \E i \in 1..Len(document.articles) : document.articles[i].sections # <<>>

RECURSIVE Flat(_)
Flat(ss) == IF ss = <<>> THEN <<>> ELSE Head(ss) \o Flat(Tail(ss))

\* the units of the returned document in tree order, level by level
AllArticles ==
  document.articles
    \o Flat([c \in 1..Len(document.chapters) |-> document.chapters[c].articles])
AllSections ==
  document.sections
    \o Flat([a \in 1..Len(AllArticles) |-> AllArticles[a].sections])
AllSubsections ==
  Flat([x \in 1..Len(AllSections) |-> AllSections[x].subsections])

Ids(units) == [i \in 1..Len(units) |-> units[i].id]

NoRepeat(ids) == \A i, j \in 1..Len(ids) : i # j => ids[i] # ids[j]

\* the number as written on the marker line: the digits and letters that
\* follow the keyword and its white space ("31A" in "Article 31A")
WrittenNumber(t, k) ==
  Slice(t, SkipWhile(Space, t, k),
        SkipWhile(Digit \cup Upper \cup Lower, t, SkipWhile(Space, t, k)))

\* no two markers of one level carry the same number
NumbersUnique(t) ==
  /\ \A p, q \in ChapterMarkers(t) :
       p # q => WrittenNumber(t, p + 1) # WrittenNumber(t, q + 1)
  /\ \A p, q \in ArticleMarkers(t) :
       p # q => WrittenNumber(t, ArticleKwEnd(t, p))
                  # WrittenNumber(t, ArticleKwEnd(t, q))
  /\ \A p, q \in SectionMarkers(t) :
       p # q => section_pattern(t, p).g1 # section_pattern(t, q).g1
  /\ \A p, q \in SubsectionMarks(t) :
       p # q => Slice(t, p + 1, MarkNumberEnd(t, p))
                  # Slice(t, q + 1, MarkNumberEnd(t, q))

\* C13: when the marker numbers are unique at each level, all unit ids of
\* the returned document are unique; and units of different levels never
\* share an id, whatever the numbers.
C13_UniqueIds ==
  pc = "parsed" =>
    /\ NumbersUnique(text) =>
         NoRepeat(Ids(document.chapters) \o Ids(AllArticles)
                    \o Ids(AllSections) \o Ids(AllSubsections))
    /\ \A i \in 1..Len(document.chapters) : \A j \in 1..Len(AllArticles) :
         document.chapters[i].id # AllArticles[j].id
    /\ \A i \in 1..Len(AllArticles) : \A j \in 1..Len(AllSections) :
         AllArticles[i].id # AllSections[j].id
    /\ \A i \in 1..Len(AllSections) : \A j \in 1..Len(AllSubsections) :
         AllSections[i].id # AllSubsections[j].id

\* the part of C13 that does not rest on the letter suffix: units of
\* different levels never share an id, and units of one level with different
\* number fields never do
C13_PrefixedIds ==
  pc = "parsed" =>
    LET all == document.chapters \o AllArticles \o AllSections \o AllSubsections
        lvl == [i \in 1..Len(all) |->
                  IF i <= Len(document.chapters) THEN 1
                  ELSE IF i <= Len(document.chapters) + Len(AllArticles) THEN 2
                  ELSE IF i <= Len(all) - Len(AllSubsections) THEN 3 ELSE 4]
    IN  \A i, j \in 1..Len(all) :
          (lvl[i] # lvl[j] \/ all[i].number # all[j].number)
            => all[i].id # all[j].id

\* the heading of the marker matched by m, read from the marker's own line:
\* None when the line ends after the number
OwnLineHeading(t, m) ==
  IF m.end > LineEnd(t, m.start) THEN None ELSE HeadingOf(m)

HeadingsOnOwnLine(units, t, ms) ==
  \A i \in 1..Len(units) :
    i <= Len(ms) => units[i].heading = OwnLineHeading(t, ms[i])

\* C14: the heading of a chapter, article or section is the trimmed text
\* after the number on the marker's own line, and None when nothing follows
\* the number there: a marker line without heading does not take the next
\* line as its heading.
C14_HeadingOnOwnLine ==
  pc = "parsed" =>
    LET rest == PostPreamble(text)
    IN  /\ HeadingsOnOwnLine(document.chapters, rest,
             finditer([at \in 0..Len(rest) |-> chapter_pattern(rest, at)]))
        /\ HeadingsOnOwnLine(document.articles, rest,
             finditer([at \in 0..Len(rest) |-> article_pattern(rest, at)]))
        /\ HeadingsOnOwnLine(document.sections, rest,
             finditer([at \in 0..Len(rest) |-> section_pattern(rest, at)]))

\* the span of unit i of ms ends where the marker of unit i + 1 starts
NextStart(ms, i, t) == IF i < Len(ms) THEN ms[i + 1].start ELSE Len(t)

SpanOf(ms, i, t) == Slice(t, ms[i].end, NextStart(ms, i, t))

\* the articles come, in source order, from article markers of t that lie
\* in [lo, hi), each from a marker of its own
ArticlesIn(articles, t, lo, hi) ==
  \E f \in [1..Len(articles) -> {q \in ArticleMarkers(t) : lo <= q /\ q < hi}] :
    /\ \A a, b \in 1..Len(articles) : a < b => f[a] < f[b]
    /\ \A a \in 1..Len(articles) :
         articles[a].number = Str(article_pattern(t, f[a]).g1)

SectionsIn(sections, t, lo, hi) ==
  \E f \in [1..Len(sections) -> {q \in SectionMarkers(t) : lo <= q /\ q < hi}] :
    /\ \A a, b \in 1..Len(sections) : a < b => f[a] < f[b]
    /\ \A a \in 1..Len(sections) :
         sections[a].number = Str(section_pattern(t, f[a]).g1)

\* the subsections come, in source order, from the markers "(x)" of c
SubsectionsIn(subsections, c) ==
  \E f \in [1..Len(subsections) -> SubsectionMarks(c)] :
    /\ \A a, b \in 1..Len(subsections) : a < b => f[a] < f[b]
    /\ \A a \in 1..Len(subsections) :
         subsections[a].number = Str(Slice(c, f[a] + 1, MarkNumberEnd(c, f[a])))

\* the sections extracted from t lie in their parents' spans, and their
\* subsections in their own
SectionsContained(sections, t, ms) ==
  /\ SectionsIn(sections, t, 0, Len(t) + 1)
  /\ \A k \in 1..Len(sections) :
       k <= Len(ms) => SubsectionsIn(sections[k].subsections, Strip(SpanOf(ms, k, t)))

SectionsWithin(sections, t) ==
  SectionsContained(sections, t,
                    finditer([at \in 0..Len(t) |-> section_pattern(t, at)]))

ArticlesContained(articles, t, ms) ==
  \A j \in 1..Len(articles) :
    j <= Len(ms) =>
      /\ SectionsIn(articles[j].sections, t, ms[j].end, NextStart(ms, j, t))
      /\ SectionsWithin(articles[j].sections, SpanOf(ms, j, t))

ArticlesWithin(articles, t) ==
  ArticlesContained(articles, t,
                    finditer([at \in 0..Len(t) |-> article_pattern(t, at)]))

ChaptersContained(chapters, t, ms) ==
  /\ Len(chapters) = Len(ms)
  /\ \A i \in 1..Len(chapters) :
       /\ ms[i].end <= NextStart(ms, i, t)
       /\ ArticlesIn(chapters[i].articles, t, ms[i].end, NextStart(ms, i, t))
       /\ ArticlesWithin(chapters[i].articles, SpanOf(ms, i, t))

\* C15: the articles of chapter i come from article markers inside the span
\* [end of chapter marker i, start of chapter marker i + 1), the sections of
\* an article from section markers inside the article's span, the
\* subsections of a section from markers inside the section's span; the
\* spans of one level do not overlap, so no marker gives a unit to two
\* parents; children are in source order.
C15_NestedContainment ==
  pc = "parsed" =>
    LET rest == PostPreamble(text)
    IN  /\ ChaptersContained(document.chapters, rest,
             finditer([at \in 0..Len(rest) |-> chapter_pattern(rest, at)]))
        /\ document.articles # <<>> => ArticlesWithin(document.articles, rest)
        /\ document.sections # <<>> => SectionsWithin(document.sections, rest)

\* two chapters, each with the article that follows its marker
C15_Witness ==
  /\ pc = "parsed"
  /\ Len(document.chapters) = 2
  /\ Len(document.chapters[1].articles) = 1
  /\ Len(document.chapters[2].articles) = 1

\* Part VII is located nowhere in t: not by the line scan, not by the
\* general repair, not by one of the Part VII heuristics
ViiNotLocated(t) ==
  /\ "VII" \notin Numbers(ScannedParts(t))
  /\ FixSearch(t, VII) = NoMatch
  /\ ViiSearch(t) = NoMatch

\* C16: the parts list extract_constitution_structure returns holds exactly
\* one part numbered "VII"; a part has position -1 exactly when it is the
\* placeholder for Part VII, inserted because neither the line scan nor the
\* general repair nor any heuristic located it, and the placeholder carries
\* the fixed heading.
C16_PartVII ==
  pc = "extracted" =>
    /\ Cardinality({i \in 1..Len(structure.parts) :
                      structure.parts[i].number = "VII"}) = 1
    /\ \A i \in 1..Len(structure.parts) :
         /\ structure.parts[i].position = -1
              <=> (structure.parts[i].number = "VII" /\ ViiNotLocated(md_text))
         /\ structure.parts[i].position = -1
              => structure.parts[i].title = DefaultViiTitle

\* the placeholder beside a part the line scan found
C16_Witness ==
  /\ pc = "extracted"
  /\ Len(structure.parts) >= 2
  /\ \E i \in 1..Len(structure.parts) :
       /\ structure.parts[i].number = "VII"
       /\ structure.parts[i].position = -1

\* Part VII located by a heuristic, with a position in the text
C16_Located ==
  /\ pc = "extracted"
  /\ \E i \in 1..Len(structure.parts) :
       /\ structure.parts[i].number = "VII"
       /\ structure.parts[i].position >= 0

\* C17: for every canonical number the line scan did not find and some
\* fallback pattern matches in the text, the parts list returned by
\* extract_constitution_structure holds a part with that number, located at
\* the match of the first pattern in rank order that matches.
C17_RepairCoversMissing ==
  pc = "extracted" =>
    \A k \in 1..Len(expected_parts) :
      (/\ expected_parts[k] \notin Numbers(ScannedParts(md_text))
       /\ FixSearch(md_text, expected_lex[k]) # NoMatch) =>
        \E i \in 1..Len(structure.parts) :
          /\ structure.parts[i].number = expected_parts[k]
          /\ structure.parts[i].position
               = CharLen(Slice(md_text, 0,
                               FixSearch(md_text, expected_lex[k]).start))

\* line i of the lines is the first part line with its number
FirstOccurrence(lines, i) ==
  /\ PartOfLine(lines, i) # <<>>
  /\ \A j \in 0..i - 1 :
       \/ PartOfLine(lines, j) = <<>>
       \/ PartOfLine(lines, j)[1].number # PartOfLine(lines, i)[1].number

\* C18: the parts list returned by extract_constitution_structure, after the
\* line scan and both repair passes, holds no part number twice; for a number
\* on several lines the entry kept is that of the first line: its title,
\* its position and its line.
C18_FirstOccurrenceKept ==
  pc = "extracted" =>
    /\ \A i, j \in 1..Len(structure.parts) :
         i # j => structure.parts[i].number # structure.parts[j].number
    /\ \A i \in 0..Len(SplitLines(md_text)) - 1 :
         FirstOccurrence(SplitLines(md_text), i) =>
           PartOfLine(SplitLines(md_text), i)[1] \in Range(structure.parts)

\* a number on two lines with different titles, the entry of the first kept
C18_Witness ==
  /\ pc = "extracted"
  /\ \E i, j \in 0..Len(SplitLines(md_text)) - 1 :
       /\ i < j
       /\ FirstOccurrence(SplitLines(md_text), i)
       /\ PartOfLine(SplitLines(md_text), j) # <<>>
       /\ PartOfLine(SplitLines(md_text), j)[1].number
            = PartOfLine(SplitLines(md_text), i)[1].number
       /\ PartOfLine(SplitLines(md_text), j)[1].title
            # PartOfLine(SplitLines(md_text), i)[1].title
       /\ PartOfLine(SplitLines(md_text), i)[1] \in Range(structure.parts)

\* the content C19 gives the subsection whose marker "(x)" opens at o: the
\* text after the marker up to the next marker or the end of c, trimmed
MarkContent(c, marks, o) ==
  Str(Strip(Slice(c, MarkNumberEnd(c, o) + 1, NextMarker(c, marks, o))))

ContentsAfterMarks(sec, c, marks) ==
  (marks # {} /\ MarksHaveText(c, marks)) =>
    \A i \in 1..Len(sec.subsections) :
      i <= Cardinality(marks) =>
        sec.subsections[i].content = MarkContent(c, marks, Nth(marks, i))

\* C19: the content of a subsection is the text of its span, from just
\* after its own marker "(x)" to the start of the next subsection marker or
\* the end of the section content, trimmed: nothing of the marker is kept and
\* nothing else is removed.
C19_SubsectionContent ==
  pc = "parsed" =>
    \A k \in 1..Len(document.sections) :
      ContentsAfterMarks(document.sections[k],
                         SectionSpans(PostPreamble(text))[k],
                         SubsectionMarks(SectionSpans(PostPreamble(text))[k]))

\* every marker line of t carries its heading on its own line, so that no
\* marker line takes the next line as its heading
MarkersKeepToLine(t) ==
  /\ \A p \in ChapterMarkers(t) : chapter_pattern(t, p).end = LineEnd(t, p)
  /\ \A p \in ArticleMarkers(t) : article_pattern(t, p).end = LineEnd(t, p)
  /\ \A p \in SectionMarkers(t) : section_pattern(t, p).end = LineEnd(t, p)

\* C20: every chapter, article and section marker line of the post-preamble
\* text is represented by a unit of the returned tree: also an article or
\* section marker before the first chapter marker, and a section marker
\* inside a chapter or before the first article without an enclosing article.
C20_NoMarkerDropped ==
  pc = "parsed" =>
    LET rest == PostPreamble(text)
    IN  MarkersKeepToLine(rest) =>
          /\ Len(document.chapters) = Cardinality(ChapterMarkers(rest))
          /\ Len(AllArticles) = Cardinality(ArticleMarkers(rest))
          /\ Len(AllSections) = Cardinality(SectionMarkers(rest))

====
